---- MODULE Spec2Model ----
(***************************************************************************)
(* A model of the Paylike Go client (src/paylike.go): the client handle,   *)
(* the endpoint methods and the request executor.                          *)
(*                                                                         *)
(* Representation of Go values:                                            *)
(*   string            a TLA+ string; a string that is interpolated into a *)
(*                     URL or a body is a sequence of tokens (Text below)  *)
(*   bool, int         BOOLEAN, Int (float64 fields hold integers here)    *)
(*   *T                [nil |-> TRUE] or [nil |-> FALSE, val |-> v]        *)
(*   map[string]T      [nil |-> TRUE] or [nil |-> FALSE, m |-> function]   *)
(*   []T               [nil |-> TRUE] or [nil |-> FALSE, e |-> sequence]   *)
(*   interface{}       [nil |-> TRUE] or [nil |-> FALSE, dyn |-> JSON]     *)
(*   struct            a function from the Go field names to the values;   *)
(*                     the fields of an embedded struct are promoted       *)
(*   error             [kind, op, cause]; the nil error has kind "nil"     *)
(***************************************************************************)
EXTENDS Integers, Sequences, FiniteSets, TLC

VARIABLES
    client,   \* the shared *Client handle: its Key and baseAPI
    lastKey,  \* history: the key given to NewClient or to the latest SetKey
    call      \* the endpoint invocation in progress, or the idle record

vars == <<client, lastKey, call>>

\* ------------------------------------------------------------------ bounds

\* Largest limit argument a caller passes to a list method.
MaxLimit == 1

\* ------------------------------------------------------------------ errors

NoErr == [kind |-> "nil", op |-> "", cause |-> ""]

Err(kind, op, cause) == [kind |-> kind, op |-> op, cause |-> cause]

IsErr(e) == e.kind # "nil"

\* ------------------------------------------------------------------ pointers

NilPtr == [nil |-> TRUE]

PtrTo(v) == [nil |-> FALSE, val |-> v]

NilMap == [nil |-> TRUE]

MapOf(f) == [nil |-> FALSE, m |-> f]

NilSlice == [nil |-> TRUE]

SliceOf(s) == [nil |-> FALSE, e |-> s]

NilIface == [nil |-> TRUE]

IfaceOf(j) == [nil |-> FALSE, dyn |-> j]

\* ------------------------------------------------------------------ JSON

\* A JSON document as encoding/json sees it after the syntax check.
JNull == [t |-> "null"]

JStr(s) == [t |-> "string", s |-> s]

JNum(n) == [t |-> "number", n |-> n]

JBool(b) == [t |-> "bool", b |-> b]

JObj(f) == [t |-> "object", m |-> f]

JArr(s) == [t |-> "array", e |-> s]

\* The object with the single member k: v.
JOne(k, v) == JObj([x \in {k} |-> v])

\* A body on the wire: zero bytes, bytes that are no JSON text, or a JSON text.
EmptyBody == [t |-> "empty"]

Garbage == [t |-> "garbage"]

\* A length that is never zero: the executor without its empty-body case.
ByteLenNeverZero(b) == 1

\* len(b) of the bytes read from the response.
ByteLen(b) == IF b.t = "empty" THEN 0 ELSE 1

\* json.Valid: the syntax check json.Unmarshal runs before it stores anything.
ValidJSON(b) == b.t \notin {"empty", "garbage"}

\* ------------------------------------------------------------------ Go types

TString == [k |-> "string"]

TBool == [k |-> "bool"]

TInt == [k |-> "int"]

TFloat == [k |-> "float64"]

TIface == [k |-> "interface"]

Ptr(T) == [k |-> "ptr", elem |-> T]

Slice(T) == [k |-> "slice", elem |-> T]

MapT(T) == [k |-> "map", elem |-> T]

Struct(fs) == [k |-> "struct", fields |-> fs]

\* A struct field: its Go name, the name of its json tag ("" when untagged),
\* whether the tag says omitempty, and its type.
Fld(name, tag, omit, T) == [name |-> name, tag |-> tag, omitempty |-> omit, type |-> T]

App == Struct(<<Fld("ID", "", FALSE, TString), Fld("Name", "", FALSE, TString),
                Fld("Key", "", FALSE, TString)>>)

Identity == Struct(<<Fld("ID", "", FALSE, TString), Fld("Name", "", FALSE, TString),
                     Fld("Created", "", FALSE, TString)>>)

InviteUserToMerchantResponse == Struct(<<Fld("IsMember", "", FALSE, TBool)>>)

PricingAmount == Struct(<<Fld("Currency", "", FALSE, TString),
                          Fld("Amount", "", FALSE, TFloat)>>)

Pricing == Struct(<<Fld("Rate", "", FALSE, TFloat), Fld("Flat", "", FALSE, PricingAmount),
                    Fld("Dispute", "", FALSE, PricingAmount)>>)

MerchantTransfer == Struct(<<Fld("ToCard", "", FALSE, Pricing)>>)

\* Pricing is embedded: Rate, Flat and Dispute are promoted.
MerchantPricing == Struct(Pricing.fields \o <<Fld("Transfer", "", FALSE, MerchantTransfer)>>)

MerchantTDS == Struct(<<Fld("Mode", "", FALSE, TString)>>)

MerchantClaim == Struct(<<Fld("CanChargeCard", "", FALSE, TBool),
                          Fld("CanSaveCard", "", FALSE, TBool),
                          Fld("CanTransferToCard", "", FALSE, TBool),
                          Fld("CanCapture", "", FALSE, TBool),
                          Fld("CanRefund", "", FALSE, TBool),
                          Fld("CanVoid", "", FALSE, TBool)>>)

MerchantCompany == Struct(<<Fld("Country", "country", FALSE, TString),
                            Fld("Number", "number", TRUE, TString)>>)

MerchantBank == Struct(<<Fld("Iban", "iban", TRUE, TString)>>)

Merchant == Struct(<<Fld("ID", "", FALSE, TString), Fld("Name", "", FALSE, TString),
                     Fld("Company", "", FALSE, MerchantCompany),
                     Fld("Claim", "", FALSE, MerchantClaim),
                     Fld("Pricing", "", FALSE, MerchantPricing),
                     Fld("Currency", "", FALSE, TString), Fld("Email", "", FALSE, TString),
                     Fld("TDS", "", FALSE, MerchantTDS), Fld("Key", "", FALSE, TString),
                     Fld("Bank", "", FALSE, MerchantBank), Fld("Created", "", FALSE, TString),
                     Fld("Test", "", FALSE, TBool), Fld("Descriptor", "", FALSE, TString),
                     Fld("Website", "", FALSE, TString), Fld("Balance", "", FALSE, TFloat)>>)

User == Struct(<<Fld("ID", "id", FALSE, TString), Fld("Email", "email", FALSE, TString)>>)

Line == Struct(<<Fld("ID", "id", FALSE, TString), Fld("Created", "created", FALSE, TString),
                 Fld("MerchantID", "merchantId", FALSE, TString),
                 Fld("Balance", "balance", FALSE, TInt), Fld("Fee", "fee", FALSE, TInt),
                 Fld("TransactionID", "transactionId", FALSE, TString),
                 Fld("Amount", "amount", FALSE, PricingAmount),
                 Fld("Refund", "refund", FALSE, TBool), Fld("Test", "test", FALSE, TBool)>>)

TransactionID == Struct(<<Fld("ID", "id", FALSE, TString)>>)

CardCode == Struct(<<Fld("Present", "present", FALSE, TBool)>>)

TransactionCard == Struct(<<Fld("Bin", "bin", FALSE, TString),
                            Fld("Last4", "last4", FALSE, TString),
                            Fld("Expiry", "expiry", FALSE, TString),
                            Fld("Scheme", "scheme", FALSE, TString),
                            Fld("Code", "code", FALSE, CardCode)>>)

TransactionTrailFee == Struct(<<Fld("Flat", "flat", FALSE, TInt),
                                Fld("Rate", "rate", FALSE, TInt)>>)

TrailDispute == Struct(<<Fld("ID", "id", FALSE, TString), Fld("Won", "won", TRUE, TBool),
                         Fld("Lost", "lost", TRUE, TBool)>>)

TransactionTrail == Struct(<<Fld("Fee", "fee", FALSE, TransactionTrailFee),
                             Fld("Amount", "amount", FALSE, TInt),
                             Fld("Balance", "balance", FALSE, TInt),
                             Fld("Created", "created", FALSE, TString),
                             Fld("Capture", "captrue", FALSE, TBool),
                             Fld("Descriptor", "descriptor", FALSE, TString),
                             Fld("LineID", "lineId", FALSE, TString),
                             Fld("Dispute", "dispute", FALSE, TrailDispute)>>)

\* TransactionID is embedded: ID is promoted.
Transaction == Struct(TransactionID.fields \o
                      <<Fld("Test", "test", FALSE, TBool),
                        Fld("MerchantID", "merchantId", FALSE, TString),
                        Fld("Created", "created", FALSE, TString),
                        Fld("Amount", "amount", FALSE, TInt),
                        Fld("RefundedAmount", "refundedAmount", FALSE, TInt),
                        Fld("CapturedAmount", "capturedAmount", FALSE, TInt),
                        Fld("VoidedAmount", "voidedAmount", FALSE, TInt),
                        Fld("PendingAmount", "pendingAmount", FALSE, TInt),
                        Fld("DisputedAmount", "disputedAmount", FALSE, TInt),
                        Fld("Card", "card", FALSE, TransactionCard),
                        Fld("TDS", "tds", FALSE, TString),
                        Fld("Currency", "currency", FALSE, TString),
                        Fld("Custom", "custom", FALSE, MapT(TIface)),
                        Fld("Recurring", "recurring", FALSE, TBool),
                        Fld("Successful", "successful", FALSE, TBool),
                        Fld("Error", "error", FALSE, TBool),
                        Fld("Descriptor", "descriptor", FALSE, TString),
                        Fld("Trail", "trail", FALSE, Slice(Ptr(TransactionTrail)))>>)

CardID == Struct(<<Fld("ID", "id", FALSE, TString)>>)

\* TransactionCard and CardID are embedded: their fields are promoted.
Card == Struct(TransactionCard.fields \o CardID.fields \o
               <<Fld("MerchantID", "merchantId", FALSE, TString),
                 Fld("Created", "created", FALSE, TString)>>)

MerchantCreateDTO == Struct(<<Fld("Name", "name", TRUE, TString),
                              Fld("Currency", "currency", FALSE, TString),
                              Fld("Test", "test", TRUE, TBool),
                              Fld("Email", "email", FALSE, TString),
                              Fld("Website", "website", FALSE, TString),
                              Fld("Descriptor", "descriptor", FALSE, TString),
                              Fld("Company", "company", FALSE, Ptr(MerchantCompany)),
                              Fld("Bank", "bank", TRUE, Ptr(MerchantBank))>>)

MerchantUpdateDTO == Struct(<<Fld("Name", "name", TRUE, TString),
                              Fld("Email", "email", TRUE, TString),
                              Fld("Descriptor", "descriptor", TRUE, TString)>>)

TransactionDTO == Struct(<<Fld("CardID", "cardId", TRUE, TString),
                           Fld("TransactionID", "transactionId", TRUE, TString),
                           Fld("Descriptor", "descriptor", TRUE, TString),
                           Fld("Currency", "currency", FALSE, TString),
                           Fld("Amount", "amount", FALSE, TInt),
                           Fld("Custom", "custom", TRUE, MapT(TIface))>>)

TransactionTrailDTO == Struct(<<Fld("Amount", "amount", FALSE, TInt),
                                Fld("Currency", "currency", TRUE, TString),
                                Fld("Descriptor", "descriptor", TRUE, TString)>>)

CardDTO == Struct(<<Fld("TransactionID", "transactionId", FALSE, TString),
                    Fld("Notes", "notes", FALSE, TString)>>)

\* ------------------------------------------------------------------ encoding/json

FieldNames(T) == {T.fields[i].name : i \in DOMAIN T.fields}

FieldIdx(T, n) == CHOOSE i \in DOMAIN T.fields : T.fields[i].name = n

\* The name a field has in JSON: its tag, or its Go name when untagged.
JName(fd) == IF fd.tag = "" THEN fd.name ELSE fd.tag

\* Case folding of the names that occur as field names or as members of a body.
Lower(s) ==
    CASE s = "ID" -> "id" [] s = "Name" -> "name" [] s = "Key" -> "key"
      [] s = "Created" -> "created" [] s = "IsMember" -> "ismember"
      [] s = "isMember" -> "ismember" [] s = "Currency" -> "currency"
      [] s = "Amount" -> "amount" [] s = "Rate" -> "rate" [] s = "Flat" -> "flat"
      [] s = "Dispute" -> "dispute" [] s = "ToCard" -> "tocard" [] s = "toCard" -> "tocard"
      [] s = "Transfer" -> "transfer" [] s = "Mode" -> "mode"
      [] s = "CanChargeCard" -> "canchargecard" [] s = "canChargeCard" -> "canchargecard"
      [] s = "CanSaveCard" -> "cansavecard" [] s = "canSaveCard" -> "cansavecard"
      [] s = "CanTransferToCard" -> "cantransfertocard"
      [] s = "canTransferToCard" -> "cantransfertocard"
      [] s = "CanCapture" -> "cancapture" [] s = "canCapture" -> "cancapture"
      [] s = "CanRefund" -> "canrefund" [] s = "canRefund" -> "canrefund"
      [] s = "CanVoid" -> "canvoid" [] s = "canVoid" -> "canvoid"
      [] s = "Company" -> "company" [] s = "Claim" -> "claim" [] s = "Pricing" -> "pricing"
      [] s = "Email" -> "email" [] s = "TDS" -> "tds" [] s = "Bank" -> "bank"
      [] s = "Test" -> "test" [] s = "Descriptor" -> "descriptor"
      [] s = "Website" -> "website" [] s = "Balance" -> "balance"
      [] s = "merchantId" -> "merchantid" [] s = "transactionId" -> "transactionid"
      [] s = "cardId" -> "cardid" [] s = "lineId" -> "lineid"
      [] s = "refundedAmount" -> "refundedamount" [] s = "capturedAmount" -> "capturedamount"
      [] s = "voidedAmount" -> "voidedamount" [] s = "pendingAmount" -> "pendingamount"
      [] s = "disputedAmount" -> "disputedamount"
      [] OTHER -> s

\* The field a member named k of a JSON object is stored into: the field of that
\* exact JSON name, else the first field whose name equals k under case folding,
\* else none (0): the member is skipped.
FieldForKey(T, k) ==
    LET First(S) == CHOOSE i \in S : \A j \in S : i <= j
        Pick(exact, fold) ==
            IF exact # {} THEN First(exact) ELSE IF fold # {} THEN First(fold) ELSE 0
        Fold(lk) == {i \in DOMAIN T.fields : Lower(JName(T.fields[i])) = lk}
    IN  Pick({i \in DOMAIN T.fields : JName(T.fields[i]) = k}, Fold(Lower(k)))

RECURSIVE Zero(_)
\* The zero value of a Go type.
Zero(T) ==
    CASE T.k = "string" -> ""
      [] T.k = "bool" -> FALSE
      [] T.k \in {"int", "float64"} -> 0
      [] T.k = "ptr" -> NilPtr
      [] T.k = "slice" -> NilSlice
      [] T.k = "map" -> NilMap
      [] T.k = "interface" -> NilIface
      [] T.k = "struct" -> [n \in FieldNames(T) |-> Zero(T.fields[FieldIdx(T, n)].type)]

RECURSIVE Decode(_, _, _)
\* The decoder of json.Unmarshal storing the document j into a value of type T
\* that holds old: the value stored and whether an UnmarshalTypeError was saved.
\* A type error skips the offending value and decoding goes on. An object is a
\* function here, so no body has two members that fold to the same field.
Decode(j, T, old) ==
    IF j.t = "null"
    THEN [v |-> IF T.k \in {"ptr", "slice", "map", "interface"} THEN [nil |-> TRUE] ELSE old,
          bad |-> FALSE]
    ELSE CASE T.k = "string" ->
                IF j.t = "string" THEN [v |-> j.s, bad |-> FALSE] ELSE [v |-> old, bad |-> TRUE]
           [] T.k = "bool" ->
                IF j.t = "bool" THEN [v |-> j.b, bad |-> FALSE] ELSE [v |-> old, bad |-> TRUE]
           [] T.k \in {"int", "float64"} ->
                IF j.t = "number" THEN [v |-> j.n, bad |-> FALSE] ELSE [v |-> old, bad |-> TRUE]
           [] T.k = "interface" -> [v |-> IfaceOf(j), bad |-> FALSE]
           [] T.k = "ptr" ->
                LET d == Decode(j, T.elem, IF old.nil THEN Zero(T.elem) ELSE old.val)
                IN  [v |-> PtrTo(d.v), bad |-> d.bad]
           [] T.k = "slice" ->
                IF j.t = "array"
                THEN LET ds == [i \in DOMAIN j.e |->
                                  Decode(j.e[i], T.elem,
                                         IF ~old.nil /\ i \in DOMAIN old.e
                                         THEN old.e[i] ELSE Zero(T.elem))]
                     IN  [v |-> SliceOf([i \in DOMAIN j.e |-> ds[i].v]),
                          bad |-> \E i \in DOMAIN j.e : ds[i].bad]
                ELSE [v |-> old, bad |-> TRUE]
           [] T.k = "map" ->
                IF j.t = "object"
                THEN LET ds == [k \in DOMAIN j.m |-> Decode(j.m[k], T.elem, Zero(T.elem))]
                         keep == IF old.nil THEN {} ELSE DOMAIN old.m
                     IN  [v |-> MapOf([k \in keep \cup DOMAIN j.m |->
                                         IF k \in DOMAIN j.m THEN ds[k].v ELSE old.m[k]]),
                          bad |-> \E k \in DOMAIN j.m : ds[k].bad]
                ELSE [v |-> old, bad |-> TRUE]
           [] T.k = "struct" ->
                IF j.t = "object"
                THEN LET Hit(fk) == {fk[k] : k \in DOMAIN j.m} \ {0}
                         Fields(fk) ==
                             [i \in Hit(fk) |->
                                Decode(j.m[CHOOSE k \in DOMAIN j.m : fk[k] = i],
                                       T.fields[i].type, old[T.fields[i].name])]
                         Stored(ds) ==
                             [v |-> [n \in FieldNames(T) |->
                                       IF FieldIdx(T, n) \in DOMAIN ds
                                       THEN ds[FieldIdx(T, n)].v ELSE old[n]],
                              bad |-> \E i \in DOMAIN ds : ds[i].bad]
                         Members(fk) == Stored(Fields(fk))
                     IN  Members([k \in DOMAIN j.m |-> FieldForKey(T, k)])
                ELSE [v |-> old, bad |-> TRUE]

\* The values the omitempty option leaves out: false, 0, a nil pointer or
\* interface, and an empty string, slice or map. A struct is never empty.
IsEmptyValue(v, T) ==
    CASE T.k = "string" -> v = ""
      [] T.k = "bool" -> v = FALSE
      [] T.k \in {"int", "float64"} -> v = 0
      [] T.k \in {"ptr", "interface"} -> v.nil
      [] T.k = "slice" -> v.nil \/ Len(v.e) = 0
      [] T.k = "map" -> v.nil \/ DOMAIN v.m = {}
      [] T.k = "struct" -> FALSE

RECURSIVE Marshal(_, _)
\* json.Marshal of the value v of type T: the document written and whether the
\* encoder met a value it cannot encode (a func or a channel behind an
\* interface{}), in which case json.Marshal returns an error and no bytes.
Marshal(v, T) ==
    CASE T.k = "string" -> [doc |-> JStr(v), bad |-> FALSE]
      [] T.k = "bool" -> [doc |-> JBool(v), bad |-> FALSE]
      [] T.k \in {"int", "float64"} -> [doc |-> JNum(v), bad |-> FALSE]
      [] T.k = "interface" ->
           IF v.nil THEN [doc |-> JNull, bad |-> FALSE]
           ELSE [doc |-> v.dyn, bad |-> v.dyn.t = "func"]
      [] T.k = "ptr" ->
           IF v.nil THEN [doc |-> JNull, bad |-> FALSE] ELSE Marshal(v.val, T.elem)
      [] T.k = "slice" ->
           IF v.nil THEN [doc |-> JNull, bad |-> FALSE]
           ELSE LET es == [i \in DOMAIN v.e |-> Marshal(v.e[i], T.elem)]
                IN  [doc |-> JArr([i \in DOMAIN v.e |-> es[i].doc]),
                     bad |-> \E i \in DOMAIN v.e : es[i].bad]
      [] T.k = "map" ->
           IF v.nil THEN [doc |-> JNull, bad |-> FALSE]
           ELSE LET es == [k \in DOMAIN v.m |-> Marshal(v.m[k], T.elem)]
                IN  [doc |-> JObj([k \in DOMAIN v.m |-> es[k].doc]),
                     bad |-> \E k \in DOMAIN v.m : es[k].bad]
      [] T.k = "struct" ->
           LET inc == {i \in DOMAIN T.fields :
                         ~(T.fields[i].omitempty
                           /\ IsEmptyValue(v[T.fields[i].name], T.fields[i].type))}
               es  == [i \in inc |-> Marshal(v[T.fields[i].name], T.fields[i].type)]
               At(k) == CHOOSE i \in inc : JName(T.fields[i]) = k
           IN  [doc |-> JObj([k \in {JName(T.fields[i]) : i \in inc} |-> es[At(k)].doc]),
                bad |-> \E i \in inc : es[i].bad]

\* ------------------------------------------------------------------ text and URLs

\* A string that is interpolated is a sequence of tokens: a token is a run of
\* unreserved characters, or one of the characters and escapes below.
\* fmt.Sprintf with %s and %d verbs concatenates.
Ctl == "<LF>"

BadEscape == "%zz"

IndexOf(s, tok) ==
    IF \E i \in DOMAIN s : s[i] = tok
    THEN CHOOSE i \in DOMAIN s : s[i] = tok /\ \A j \in 1..(i - 1) : s[j] # tok
    ELSE 0

\* strings.Cut(s, tok)
Cut(s, tok) ==
    LET At(i) ==
            IF i = 0 THEN [before |-> s, after |-> <<>>, found |-> FALSE]
            ELSE [before |-> SubSeq(s, 1, i - 1), after |-> SubSeq(s, i + 1, Len(s)),
                  found |-> TRUE]
    IN  At(IndexOf(s, tok))

Contains(s, tok) == IndexOf(s, tok) # 0

\* url.Parse of scheme://authority followed by the rest: the fragment is cut
\* off at the first '#', a control character in what is left is an error, the
\* query is cut off at the first '?', the authority ends at the first '/', and
\* the path and the fragment are unescaped, which fails on a malformed escape.
\* The query is kept raw.
ParseURL(u) ==
    LET Parts(f, q, auth, path) ==
            [ok |-> ~(\/ Contains(f.before, Ctl)
                      \/ Contains(path, BadEscape)
                      \/ Contains(f.after, BadEscape)
                      \/ Contains(auth, BadEscape)),
             scheme |-> u[1], host |-> auth, path |-> path,
             query |-> q.after, fragment |-> f.after]
        Authority(f, q, rest, s) ==
            Parts(f, q, IF s = 0 THEN rest ELSE SubSeq(rest, 1, s - 1),
                        IF s = 0 THEN <<>> ELSE SubSeq(rest, s, Len(rest)))
        Rest(f, q, rest) == Authority(f, q, rest, IndexOf(rest, "/"))
        Query(f, q) == Rest(f, q, SubSeq(q.before, 2, Len(q.before)))
        Fragment(f) == Query(f, Cut(f.before, "?"))
    IN  Fragment(Cut(u, "#"))

\* A request body: none (a nil io.Reader), the bytes json.Marshal wrote, or
\* the bytes fmt.Sprintf wrote.
NoBody == [kind |-> "nil"]

JSONBody(doc) == [kind |-> "json", doc |-> doc]

TextBody(t) == [kind |-> "text", text |-> t]

NoAuth == [scheme |-> "", user |-> "", pass |-> ""]

\* http.NewRequest(method, url, body): the request, or the *url.Error of
\* url.Parse. The methods passed are constants and valid.
NewRequest(method, u, body) ==
    LET Parsed(p) ==
            IF p.ok
            THEN [err |-> NoErr,
                  req |-> [method |-> method, url |-> u, target |-> p, body |-> body,
                           auth |-> NoAuth, contentType |-> ""]]
            ELSE [err |-> Err("url.Error", "parse", "invalid URL"), req |-> NilPtr]
    IN  Parsed(ParseURL(u))

\* ------------------------------------------------------------------ the client

BaseAPI == <<"https://", "api.paylike.io">>

\* NewClient(key): the handle returned.
NewClient(key) == [Key |-> key, client |-> "http.Client", baseAPI |-> BaseAPI]

\* A URL built from the route alone.
getURLOfRoute(c, url) == url

\* getURL: fmt.Sprintf("%s%s", c.baseAPI, url)
getURL(c, url) == c.baseAPI \o url

\* ------------------------------------------------------------------ the executor

\* What the network does with one send: the send fails with a cause, or a
\* response arrives with a status and a body whose reading succeeds or fails.
TransportFailure(cause) == [kind |-> "transport", cause |-> cause]

Response(status, body, read) ==
    [kind |-> "response", status |-> status, body |-> body, read |-> read]

\* The destination handed to the executor: the nil interface, or a pointer to
\* the caller's variable marshalled, of type T and holding cur.
NoDest == [nil |-> TRUE]

Dest(T, cur) == [nil |-> FALSE, type |-> T, cur |-> cur]

\* The credential with its two parts exchanged.
SetBasicAuthSwapped(req, username, password) ==
    [req EXCEPT !.auth = [scheme |-> "Basic", user |-> password, pass |-> username]]

\* req.SetBasicAuth(username, password)
SetBasicAuth(req, username, password) ==
    [req EXCEPT !.auth = [scheme |-> "Basic", user |-> username, pass |-> password]]

\* A Content-Type that is set on a request without a body only.
SetContentTypeOfBodiless(req, v) ==
    IF req.body.kind = "nil" THEN [req EXCEPT !.contentType = v] ELSE req

\* req.Header.Set("Content-Type", v)
SetContentType(req, v) == [req EXCEPT !.contentType = v]

Title(method) ==
    CASE method = "GET" -> "Get" [] method = "POST" -> "Post"
      [] method = "PUT" -> "Put" [] method = "DELETE" -> "Delete"

\* A send that loses the error of a failed send.
DoDropsError(req, net) ==
    [err |-> NoErr, resp |-> IF net.kind = "transport" THEN NilPtr ELSE PtrTo(net), sends |-> 1]

\* A send that is tried again after a failure.
DoRetries(req, net) ==
    IF net.kind = "transport"
    THEN [err |-> Err("url.Error", Title(req.method), net.cause), resp |-> NilPtr, sends |-> 2]
    ELSE [err |-> NoErr, resp |-> PtrTo(net), sends |-> 1]

\* A send that turns a response with an error status into an error.
DoChecksStatus(req, net) ==
    IF net.kind = "transport"
    THEN [err |-> Err("url.Error", Title(req.method), net.cause), resp |-> NilPtr, sends |-> 1]
    ELSE IF net.status >= 400
    THEN [err |-> Err("http", Title(req.method), "status"), resp |-> NilPtr, sends |-> 1]
    ELSE [err |-> NoErr, resp |-> PtrTo(net), sends |-> 1]

\* c.client.Do(req): one send; the response, or the *url.Error that wraps
\* the cause of the failure.
Do(req, net) ==
    IF net.kind = "transport"
    THEN [err |-> Err("url.Error", Title(req.method), net.cause), resp |-> NilPtr, sends |-> 1]
    ELSE [err |-> NoErr, resp |-> PtrTo(net), sends |-> 1]

\* ioutil.ReadAll(resp.Body)
ReadAll(resp) ==
    IF resp.read = "ok" THEN [b |-> resp.body, err |-> NoErr]
    ELSE [b |-> EmptyBody, err |-> Err("io", "read", resp.read)]

\* A decoder that reports syntax errors only.
UnmarshalSyntaxOnly(b, value) ==
    IF ~ValidJSON(b)
    THEN [err |-> Err("json.SyntaxError", "", ""), cur |-> IF value.nil THEN NilPtr ELSE value.cur]
    ELSE [err |-> NoErr, cur |-> IF value.nil THEN NilPtr ELSE value.cur]

\* json.Unmarshal(b, &value), value being the executor's interface{} parameter:
\* the error returned and what the caller's variable holds afterwards. The
\* syntax is checked before anything is stored. A nil value receives any
\* document. A value that holds the caller's pointer is decoded through it,
\* except for the document null, which is stored into the local interface.
Unmarshal(b, value) ==
    IF ~ValidJSON(b)
    THEN [err |-> Err("json.SyntaxError", "", ""), cur |-> IF value.nil THEN NilPtr ELSE value.cur]
    ELSE IF value.nil THEN [err |-> NoErr, cur |-> NilPtr]
    ELSE IF b.t = "null" THEN [err |-> NoErr, cur |-> value.cur]
    ELSE LET Stored(d) ==
                 [err |-> IF d.bad THEN Err("json.UnmarshalTypeError", "", "") ELSE NoErr,
                  cur |-> d.v]
         IN  Stored(Decode(b, value.type, value.cur))

\* executeRequestAndMarshal(req, value) on the receiver copy c, the network
\* doing net: the error returned, what the caller's variable holds afterwards,
\* the request as it was sent, the number of sends, and whether the goroutine
\* panicked instead of returning (resp.Body of a nil resp).
executeRequestAndMarshal(c, req, value, net) ==
    LET old == IF value.nil THEN NilPtr ELSE value.cur
        Out(r, d, err, cur, panic) ==
            [err |-> err, cur |-> cur, req |-> r, sends |-> d.sends, panic |-> panic]
        Decoded(r, d, u) == Out(r, d, u.err, u.cur, FALSE)
        Read(r, d, rd) ==
            IF IsErr(rd.err) THEN Out(r, d, rd.err, old, FALSE)
            ELSE IF ByteLen(rd.b) = 0 THEN Out(r, d, NoErr, old, FALSE)
            ELSE Decoded(r, d, Unmarshal(rd.b, value))
        Sent(r, d) ==
            IF IsErr(d.err) THEN Out(r, d, d.err, old, FALSE)
            ELSE IF d.resp.nil THEN Out(r, d, NoErr, old, TRUE)
            ELSE Read(r, d, ReadAll(d.resp.val))
        Send(r) == Sent(r, Do(r, net))
    IN  Send(SetContentType(SetBasicAuth(req, "", c.Key), "application/json"))

\* ------------------------------------------------------------------ endpoint helpers

\* What an endpoint method hands back to its caller, with the request it sent
\* (nil when it sent none), the number of sends it made, and whether it
\* panicked instead of returning.
Returned(result, err, x) ==
    [result |-> result, err |-> err, req |-> PtrTo(x.req), sends |-> x.sends,
     panic |-> x.panic]

ReturnedEarly(result, err) ==
    [result |-> result, err |-> err, req |-> NilPtr, sends |-> 0, panic |-> FALSE]

\* m[k] of a map[string]*T: the nil pointer when m is nil or has no k.
MapIndex(m, k) == IF m.nil \/ k \notin DOMAIN m.m THEN NilPtr ELSE m.m[k]

\* The Go specification orders the function calls of a return statement but
\* not the read of a variable against a call in the same statement: in
\* "return marshalled, f(&marshalled)" the first result is the variable as it
\* was before the call or as the call left it.
OperandOrders == {"operand first", "call first"}

ReadWithCall(order, before, after) == IF order = "operand first" THEN before ELSE after

\* The token of the %d verb applied to limit.
Itoa(n) == ToString(n)

\* A query that carries a fixed limit whatever the caller passed.
LimitQueryFixed(limit) == <<"?", "limit", "=", Itoa(1)>>

LimitQuery(limit) == <<"?", "limit", "=", Itoa(limit)>>

createApp(c, body, net) ==
    LET r == NewRequest("POST", getURL(c, <<"/", "apps">>), body)
    IN  IF IsErr(r.err) THEN ReturnedEarly(NilPtr, r.err)
        ELSE LET Result(x) == Returned(MapIndex(x.cur, "app"), x.err, x)
             IN  Result(executeRequestAndMarshal(c, r.req, Dest(MapT(Ptr(App)), NilMap), net))

fetchApp(c, net) ==
    LET r == NewRequest("GET", getURL(c, <<"/", "me">>), NoBody)
    IN  IF IsErr(r.err) THEN ReturnedEarly(NilPtr, r.err)
        ELSE LET Result(x) == Returned(MapIndex(x.cur, "identity"), x.err, x)
             IN  Result(executeRequestAndMarshal(c, r.req, Dest(MapT(Ptr(Identity)), NilMap), net))

createMerchant(c, body, net) ==
    LET r == NewRequest("POST", getURL(c, <<"/", "merchants">>), body)
    IN  IF IsErr(r.err) THEN ReturnedEarly(NilPtr, r.err)
        ELSE LET Result(x) == Returned(MapIndex(x.cur, "merchant"), x.err, x)
             IN  Result(executeRequestAndMarshal(c, r.req, Dest(MapT(Ptr(Merchant)), NilMap), net))

fetchMerchants(c, appID, limit, net, order) ==
    LET path == <<"/", "identities", "/">> \o appID \o <<"/", "merchants">> \o LimitQuery(limit)
        r    == NewRequest("GET", getURL(c, path), NoBody)
    IN  IF IsErr(r.err) THEN ReturnedEarly(NilSlice, r.err)
        ELSE LET Result(x) == Returned(ReadWithCall(order, NilSlice, x.cur), x.err, x)
             IN  Result(executeRequestAndMarshal(c, r.req, Dest(Slice(Ptr(Merchant)), NilSlice), net))

getMerchant(c, id, net) ==
    LET path == <<"/", "merchants", "/">> \o id
        r    == NewRequest("GET", getURL(c, path), NoBody)
    IN  IF IsErr(r.err) THEN ReturnedEarly(NilPtr, r.err)
        ELSE LET Result(x) == Returned(MapIndex(x.cur, "merchant"), x.err, x)
             IN  Result(executeRequestAndMarshal(c, r.req, Dest(MapT(Ptr(Merchant)), NilMap), net))

\* A request that cannot be built returns nil here, not err.
updateMerchant(c, id, body, net) ==
    LET path == <<"/", "merchants", "/">> \o id
        r    == NewRequest("PUT", getURL(c, path), body)
    IN  IF IsErr(r.err) THEN ReturnedEarly(NilPtr, NoErr)
        ELSE LET Result(x) == Returned(NilPtr, x.err, x)
             IN  Result(executeRequestAndMarshal(c, r.req, NoDest, net))

\* A request that cannot be built returns nil, nil here; the result returned
\* otherwise is the address of the local struct, whatever the error.
inviteUserToMerchant(c, id, email, net) ==
    LET data == <<"{\"email\":\"">> \o email \o <<"\"}">>
        path == <<"/", "merchants", "/">> \o id \o <<"/", "users">>
        r    == NewRequest("POST", getURL(c, path), TextBody(data))
    IN  IF IsErr(r.err) THEN ReturnedEarly(NilPtr, NoErr)
        ELSE LET Result(x) == Returned(PtrTo(x.cur), x.err, x)
             IN  Result(executeRequestAndMarshal(c, r.req,
                        Dest(InviteUserToMerchantResponse, Zero(InviteUserToMerchantResponse)),
                        net))

\* A request that cannot be built returns nil, nil here.
fetchUsersToMerchant(c, id, limit, net, order) ==
    LET path == <<"/", "merchants", "/">> \o id \o <<"/", "users">> \o LimitQuery(limit)
        r    == NewRequest("GET", getURL(c, path), NoBody)
    IN  IF IsErr(r.err) THEN ReturnedEarly(NilSlice, NoErr)
        ELSE LET Result(x) == Returned(ReadWithCall(order, NilSlice, x.cur), x.err, x)
             IN  Result(executeRequestAndMarshal(c, r.req, Dest(Slice(Ptr(User)), NilSlice), net))

revokeUserFromMerchant(c, merchantID, userID, net) ==
    LET path == <<"/", "merchants", "/">> \o merchantID \o <<"/", "users", "/">> \o userID
        r    == NewRequest("DELETE", getURL(c, path), NoBody)
    IN  IF IsErr(r.err) THEN ReturnedEarly(NilPtr, r.err)
        ELSE LET Result(x) == Returned(NilPtr, x.err, x)
             IN  Result(executeRequestAndMarshal(c, r.req, NoDest, net))

addAppToMerchant(c, merchantID, appID, net) ==
    LET data == <<"{\"appId\":\"">> \o appID \o <<"\"}">>
        path == <<"/", "merchants", "/">> \o merchantID \o <<"/", "apps">>
        r    == NewRequest("POST", getURL(c, path), TextBody(data))
    IN  IF IsErr(r.err) THEN ReturnedEarly(NilPtr, r.err)
        ELSE LET Result(x) == Returned(NilPtr, x.err, x)
             IN  Result(executeRequestAndMarshal(c, r.req, NoDest, net))

fetchAppsToMerchant(c, merchantID, limit, net, order) ==
    LET path == <<"/", "merchants", "/">> \o merchantID \o <<"/", "apps">> \o LimitQuery(limit)
        r    == NewRequest("GET", getURL(c, path), NoBody)
    IN  IF IsErr(r.err) THEN ReturnedEarly(NilSlice, r.err)
        ELSE LET Result(x) == Returned(ReadWithCall(order, NilSlice, x.cur), x.err, x)
             IN  Result(executeRequestAndMarshal(c, r.req, Dest(Slice(Ptr(App)), NilSlice), net))

revokeAppFromMerchant(c, merchantID, appID, net) ==
    LET path == <<"/", "merchants", "/">> \o merchantID \o <<"/", "apps", "/">> \o appID
        r    == NewRequest("DELETE", getURL(c, path), NoBody)
    IN  IF IsErr(r.err) THEN ReturnedEarly(NilPtr, r.err)
        ELSE LET Result(x) == Returned(NilPtr, x.err, x)
             IN  Result(executeRequestAndMarshal(c, r.req, NoDest, net))

fetchLinesToMerchant(c, merchantID, limit, net, order) ==
    LET path == <<"/", "merchants", "/">> \o merchantID \o <<"/", "lines">> \o LimitQuery(limit)
        r    == NewRequest("GET", getURL(c, path), NoBody)
    IN  IF IsErr(r.err) THEN ReturnedEarly(NilSlice, r.err)
        ELSE LET Result(x) == Returned(ReadWithCall(order, NilSlice, x.cur), x.err, x)
             IN  Result(executeRequestAndMarshal(c, r.req, Dest(Slice(Ptr(Line)), NilSlice), net))

createTransaction(c, merchantID, body, net, order) ==
    LET path == <<"/", "merchants", "/">> \o merchantID \o <<"/", "transactions">>
        r    == NewRequest("POST", getURL(c, path), body)
    IN  IF IsErr(r.err) THEN ReturnedEarly(NilPtr, r.err)
        ELSE LET Result(x) == Returned(MapIndex(ReadWithCall(order, NilMap, x.cur), "transaction"), x.err, x)
             IN  Result(executeRequestAndMarshal(c, r.req, Dest(MapT(Ptr(TransactionID)), NilMap), net))

listTransactions(c, merchantID, limit, net, order) ==
    LET path == <<"/", "merchants", "/">> \o merchantID \o <<"/", "transactions">>
                \o LimitQuery(limit)
        r    == NewRequest("GET", getURL(c, path), NoBody)
    IN  IF IsErr(r.err) THEN ReturnedEarly(NilSlice, r.err)
        ELSE LET Result(x) == Returned(ReadWithCall(order, NilSlice, x.cur), x.err, x)
             IN  Result(executeRequestAndMarshal(c, r.req, Dest(Slice(Ptr(Transaction)), NilSlice), net))

captureTransaction(c, transactionID, body, net, order) ==
    LET path == <<"/", "transactions", "/">> \o transactionID \o <<"/", "captures">>
        r    == NewRequest("POST", getURL(c, path), body)
    IN  IF IsErr(r.err) THEN ReturnedEarly(NilPtr, r.err)
        ELSE LET Result(x) == Returned(MapIndex(ReadWithCall(order, NilMap, x.cur), "transaction"), x.err, x)
             IN  Result(executeRequestAndMarshal(c, r.req, Dest(MapT(Ptr(Transaction)), NilMap), net))

refundTransaction(c, transactionID, body, net, order) ==
    LET path == <<"/", "transactions", "/">> \o transactionID \o <<"/", "refunds">>
        r    == NewRequest("POST", getURL(c, path), body)
    IN  IF IsErr(r.err) THEN ReturnedEarly(NilPtr, r.err)
        ELSE LET Result(x) == Returned(MapIndex(ReadWithCall(order, NilMap, x.cur), "transaction"), x.err, x)
             IN  Result(executeRequestAndMarshal(c, r.req, Dest(MapT(Ptr(Transaction)), NilMap), net))

voidTransaction(c, transactionID, body, net, order) ==
    LET path == <<"/", "transactions", "/">> \o transactionID \o <<"/", "voids">>
        r    == NewRequest("POST", getURL(c, path), body)
    IN  IF IsErr(r.err) THEN ReturnedEarly(NilPtr, r.err)
        ELSE LET Result(x) == Returned(MapIndex(ReadWithCall(order, NilMap, x.cur), "transaction"), x.err, x)
             IN  Result(executeRequestAndMarshal(c, r.req, Dest(MapT(Ptr(Transaction)), NilMap), net))

findTransaction(c, transactionID, net, order) ==
    LET path == <<"/", "transactions", "/">> \o transactionID
        r    == NewRequest("GET", getURL(c, path), NoBody)
    IN  IF IsErr(r.err) THEN ReturnedEarly(NilPtr, r.err)
        ELSE LET Result(x) == Returned(MapIndex(ReadWithCall(order, NilMap, x.cur), "transaction"), x.err, x)
             IN  Result(executeRequestAndMarshal(c, r.req, Dest(MapT(Ptr(Transaction)), NilMap), net))

fetchCard(c, cardID, net, order) ==
    LET path == <<"/", "cards", "/">> \o cardID
        r    == NewRequest("GET", getURL(c, path), NoBody)
    IN  IF IsErr(r.err) THEN ReturnedEarly(NilPtr, r.err)
        ELSE LET Result(x) == Returned(MapIndex(ReadWithCall(order, NilMap, x.cur), "card"), x.err, x)
             IN  Result(executeRequestAndMarshal(c, r.req, Dest(MapT(Ptr(Card)), NilMap), net))

createCard(c, merchantID, body, net, order) ==
    LET path == <<"/", "merchants", "/">> \o merchantID \o <<"/", "cards">>
        r    == NewRequest("POST", getURL(c, path), body)
    IN  IF IsErr(r.err) THEN ReturnedEarly(NilPtr, r.err)
        ELSE LET Result(x) == Returned(MapIndex(ReadWithCall(order, NilMap, x.cur), "card"), x.err, x)
             IN  Result(executeRequestAndMarshal(c, r.req, Dest(MapT(Ptr(CardID)), NilMap), net))

\* ------------------------------------------------------------------ endpoint methods

\* The error json.Marshal returns for a value it cannot encode.
MarshalError == Err("json.UnsupportedTypeError", "Marshal", "")

CreateApp(c, net) == createApp(c, NoBody, net)

CreateAppWithName(c, name, net) ==
    createApp(c, TextBody(<<"{\"name\":\"">> \o name \o <<"\"}">>), net)

FetchApp(c, net) == fetchApp(c, net)

CreateMerchant(c, dto, net) ==
    LET b == Marshal(dto, MerchantCreateDTO)
    IN  IF b.bad THEN ReturnedEarly(NilPtr, MarshalError)
        ELSE createMerchant(c, JSONBody(b.doc), net)

GetMerchant(c, id, net) == getMerchant(c, id, net)

FetchMerchants(c, appID, limit, net, order) == fetchMerchants(c, appID, limit, net, order)

UpdateMerchant(c, id, dto, net) ==
    LET b == Marshal(dto, MerchantUpdateDTO)
    IN  IF b.bad THEN ReturnedEarly(NilPtr, MarshalError)
        ELSE updateMerchant(c, id, JSONBody(b.doc), net)

InviteUserToMerchant(c, merchantID, email, net) == inviteUserToMerchant(c, merchantID, email, net)

FetchUsersToMerchant(c, merchantID, limit, net, order) ==
    fetchUsersToMerchant(c, merchantID, limit, net, order)

RevokeUserFromMerchant(c, merchantID, userID, net) ==
    revokeUserFromMerchant(c, merchantID, userID, net)

AddAppToMerchant(c, merchantID, appID, net) == addAppToMerchant(c, merchantID, appID, net)

FetchAppsToMerchant(c, merchantID, limit, net, order) ==
    fetchAppsToMerchant(c, merchantID, limit, net, order)

RevokeAppFromMerchant(c, merchantID, appID, net) ==
    revokeAppFromMerchant(c, merchantID, appID, net)

FetchLinesToMerchant(c, merchantID, limit, net, order) ==
    fetchLinesToMerchant(c, merchantID, limit, net, order)

\* A CreateTransaction that drops the error of json.Marshal and goes on with
\* the bytes it got.
CreateTransactionDropsError(c, merchantID, dto, net, order) ==
    LET b == Marshal(dto, TransactionDTO)
    IN  IF b.bad THEN createTransaction(c, merchantID, NoBody, net, order)
        ELSE createTransaction(c, merchantID, JSONBody(b.doc), net, order)

CreateTransaction(c, merchantID, dto, net, order) ==
    LET b == Marshal(dto, TransactionDTO)
    IN  IF b.bad THEN ReturnedEarly(NilPtr, MarshalError)
        ELSE createTransaction(c, merchantID, JSONBody(b.doc), net, order)

ListTransactions(c, merchantID, limit, net, order) ==
    listTransactions(c, merchantID, limit, net, order)

CaptureTransaction(c, transactionID, dto, net, order) ==
    LET b == Marshal(dto, TransactionTrailDTO)
    IN  IF b.bad THEN ReturnedEarly(NilPtr, MarshalError)
        ELSE captureTransaction(c, transactionID, JSONBody(b.doc), net, order)

RefundTransaction(c, transactionID, dto, net, order) ==
    LET b == Marshal(dto, TransactionTrailDTO)
    IN  IF b.bad THEN ReturnedEarly(NilPtr, MarshalError)
        ELSE refundTransaction(c, transactionID, JSONBody(b.doc), net, order)

VoidTransaction(c, transactionID, dto, net, order) ==
    LET b == Marshal(dto, TransactionTrailDTO)
    IN  IF b.bad THEN ReturnedEarly(NilPtr, MarshalError)
        ELSE voidTransaction(c, transactionID, JSONBody(b.doc), net, order)

FindTransaction(c, transactionID, net, order) == findTransaction(c, transactionID, net, order)

FetchCard(c, cardID, net, order) == fetchCard(c, cardID, net, order)

CreateCard(c, merchantID, dto, net, order) ==
    LET b == Marshal(dto, CardDTO)
    IN  IF b.bad THEN ReturnedEarly(NilPtr, MarshalError)
        ELSE createCard(c, merchantID, JSONBody(b.doc), net, order)

\* The arguments of an invocation: a.id and a.id2 are the identifiers, a.limit
\* the limit, a.text the name, email or app id written into a body, a.dto the
\* DTO; a method reads the ones it has.
Run(m, c, a, net, order) ==
    CASE m = "CreateApp" -> CreateApp(c, net)
      [] m = "CreateAppWithName" -> CreateAppWithName(c, a.text, net)
      [] m = "FetchApp" -> FetchApp(c, net)
      [] m = "CreateMerchant" -> CreateMerchant(c, a.dto, net)
      [] m = "GetMerchant" -> GetMerchant(c, a.id, net)
      [] m = "FetchMerchants" -> FetchMerchants(c, a.id, a.limit, net, order)
      [] m = "UpdateMerchant" -> UpdateMerchant(c, a.id, a.dto, net)
      [] m = "InviteUserToMerchant" -> InviteUserToMerchant(c, a.id, a.text, net)
      [] m = "FetchUsersToMerchant" -> FetchUsersToMerchant(c, a.id, a.limit, net, order)
      [] m = "RevokeUserFromMerchant" -> RevokeUserFromMerchant(c, a.id, a.id2, net)
      [] m = "AddAppToMerchant" -> AddAppToMerchant(c, a.id, a.text, net)
      [] m = "FetchAppsToMerchant" -> FetchAppsToMerchant(c, a.id, a.limit, net, order)
      [] m = "RevokeAppFromMerchant" -> RevokeAppFromMerchant(c, a.id, a.id2, net)
      [] m = "FetchLinesToMerchant" -> FetchLinesToMerchant(c, a.id, a.limit, net, order)
      [] m = "CreateTransaction" -> CreateTransaction(c, a.id, a.dto, net, order)
      [] m = "ListTransactions" -> ListTransactions(c, a.id, a.limit, net, order)
      [] m = "CaptureTransaction" -> CaptureTransaction(c, a.id, a.dto, net, order)
      [] m = "RefundTransaction" -> RefundTransaction(c, a.id, a.dto, net, order)
      [] m = "VoidTransaction" -> VoidTransaction(c, a.id, a.dto, net, order)
      [] m = "FindTransaction" -> FindTransaction(c, a.id, net, order)
      [] m = "FetchCard" -> FetchCard(c, a.id, net, order)
      [] m = "CreateCard" -> CreateCard(c, a.id, a.dto, net, order)

\* ------------------------------------------------------------------ inputs

Methods ==
    {"CreateApp", "CreateAppWithName", "FetchApp", "CreateMerchant", "GetMerchant",
     "FetchMerchants", "UpdateMerchant", "InviteUserToMerchant", "FetchUsersToMerchant",
     "RevokeUserFromMerchant", "AddAppToMerchant", "FetchAppsToMerchant",
     "RevokeAppFromMerchant", "FetchLinesToMerchant", "CreateTransaction",
     "ListTransactions", "CaptureTransaction", "RefundTransaction", "VoidTransaction",
     "FindTransaction", "FetchCard", "CreateCard"}

ListMethods ==
    {"FetchMerchants", "FetchUsersToMerchant", "FetchAppsToMerchant", "FetchLinesToMerchant",
     "ListTransactions"}

\* The methods that hand the executor no destination.
CommandMethods ==
    {"UpdateMerchant", "RevokeUserFromMerchant", "AddAppToMerchant", "RevokeAppFromMerchant"}

\* The methods that return one record taken from under a key of the envelope.
SingleMethods == Methods \ (ListMethods \cup CommandMethods \cup {"InviteUserToMerchant"})

\* The methods that serialize a DTO of the caller.
DTOMethods ==
    {"CreateMerchant", "UpdateMerchant", "CreateTransaction", "CaptureTransaction",
     "RefundTransaction", "VoidTransaction", "CreateCard"}

Keys == {"key0", "key1"}

\* Identifiers: a plain one, one with a malformed percent escape, and one
\* that holds separators of a URL.
Ids == {<<"id1">>, <<BadEscape>>, <<"@", "evil.io", "?", "q">>}

\* Names, emails and app ids written into a body by fmt.Sprintf.
Texts == {<<"abc">>, <<"a", "\"", "b">>, <<"a", "\\">>}

Limits == 0..MaxLimit

Args(id, id2, limit, text, dto) ==
    [id |-> id, id2 |-> id2, limit |-> limit, text |-> text, dto |-> dto]

MerchantCreateDTOs ==
    [Name : {"", "N"}, Currency : {"", "EUR"}, Test : BOOLEAN, Email : {"e@x"},
     Website : {"w"}, Descriptor : {"d"},
     Company : {NilPtr, PtrTo([Country |-> "DK", Number |-> ""])},
     Bank : {NilPtr, PtrTo([Iban |-> ""])}]

MerchantUpdateDTOs == [Name : {"", "N"}, Email : {"", "e@x"}, Descriptor : {"", "d"}]

\* Custom holds nothing, a string, or a func, which json.Marshal cannot encode.
TransactionDTOs ==
    [CardID : {"", "c1"}, TransactionID : {"", "t1"}, Descriptor : {"", "d"},
     Currency : {"", "EUR"}, Amount : {0, 200},
     Custom : {NilMap, MapOf([source |-> IfaceOf(JStr("test"))]),
               MapOf([source |-> IfaceOf([t |-> "func"])])}]

TransactionTrailDTOs == [Amount : {0, 2}, Currency : {"", "EUR"}, Descriptor : {"", "d"}]

CardDTOs == [TransactionID : {"", "t1"}, Notes : {"", "n"}]

ArgsOf(m) ==
    CASE m \in {"CreateApp", "FetchApp"} -> {Args(<<>>, <<>>, 0, <<>>, NilPtr)}
      [] m = "CreateAppWithName" -> {Args(<<>>, <<>>, 0, t, NilPtr) : t \in Texts}
      [] m = "CreateMerchant" -> {Args(<<>>, <<>>, 0, <<>>, d) : d \in MerchantCreateDTOs}
      [] m \in {"GetMerchant", "FindTransaction", "FetchCard"} ->
           {Args(i, <<>>, 0, <<>>, NilPtr) : i \in Ids}
      [] m \in ListMethods -> {Args(i, <<>>, n, <<>>, NilPtr) : i \in Ids, n \in Limits}
      [] m = "UpdateMerchant" -> {Args(i, <<>>, 0, <<>>, d) : i \in Ids, d \in MerchantUpdateDTOs}
      [] m \in {"InviteUserToMerchant", "AddAppToMerchant"} ->
           {Args(i, <<>>, 0, t, NilPtr) : i \in Ids, t \in Texts}
      [] m \in {"RevokeUserFromMerchant", "RevokeAppFromMerchant"} ->
           {Args(i, j, 0, <<>>, NilPtr) : i \in Ids, j \in Ids}
      [] m = "CreateTransaction" -> {Args(i, <<>>, 0, <<>>, d) : i \in Ids, d \in TransactionDTOs}
      [] m \in {"CaptureTransaction", "RefundTransaction", "VoidTransaction"} ->
           {Args(i, <<>>, 0, <<>>, d) : i \in Ids, d \in TransactionTrailDTOs}
      [] m = "CreateCard" -> {Args(i, <<>>, 0, <<>>, d) : i \in Ids, d \in CardDTOs}

\* The key of the envelope a single-resource method reads, and the name of the
\* record type it decodes.
ResourceKey(m) ==
    CASE m \in {"CreateApp", "CreateAppWithName"} -> "app"
      [] m = "FetchApp" -> "identity"
      [] m \in {"CreateMerchant", "GetMerchant"} -> "merchant"
      [] m \in {"CreateTransaction", "CaptureTransaction", "RefundTransaction",
                "VoidTransaction", "FindTransaction"} -> "transaction"
      [] m \in {"FetchCard", "CreateCard"} -> "card"
      [] OTHER -> ""

\* Records as the service writes them: complete ones, one with members
\* missing, and one with a member of the wrong JSON type.
GoodRecord(m) ==
    IF m \in {"CaptureTransaction", "RefundTransaction", "VoidTransaction", "FindTransaction",
              "ListTransactions"}
    THEN JObj([id |-> JStr("id1"), amount |-> JNum(200),
               trail |-> JArr(<<JObj([amount |-> JNum(2), capture |-> JBool(TRUE),
                                        descriptor |-> JStr("d")])>>)])
    ELSE JObj([id |-> JStr("id1"), name |-> JStr("n")])

OtherRecord == JObj([id |-> JStr("r2"), email |-> JStr("e@x")])

PartialRecord == JObj([name |-> JStr("n")])

WrongRecord == JObj([id |-> JNum(7), name |-> JStr("n")])

\* The bodies a response to m may carry.
Bodies(m) ==
    {EmptyBody, Garbage, JNull, JObj(<<>>), JStr("x")}
    \cup (IF m \in SingleMethods
          THEN {JOne(ResourceKey(m), d) : d \in {GoodRecord(m), PartialRecord, WrongRecord, JNull}}
               \cup {JArr(<<GoodRecord(m)>>)}
          ELSE {})
    \cup (IF m \in ListMethods
          THEN {JArr(<<>>), JArr(<<GoodRecord(m)>>), JArr(<<GoodRecord(m), OtherRecord>>),
                JArr(<<GoodRecord(m), WrongRecord>>), JArr(<<JNull>>),
                JOne("error", GoodRecord(m))}
          ELSE {})
    \cup (IF m = "InviteUserToMerchant"
          THEN {JOne("isMember", JBool(TRUE)), JOne("isMember", JStr("yes"))}
          ELSE {})

Statuses == {200, 401}

TransportCauses == {"dial tcp: no such host", "i/o timeout"}

Nets(m) ==
    {TransportFailure(cause) : cause \in TransportCauses}
    \cup {Response(st, b, "ok") : st \in Statuses, b \in Bodies(m)}
    \cup {Response(st, EmptyBody, "unexpected EOF") : st \in Statuses}

\* ------------------------------------------------------------------ the state machine

Idle == [pc |-> "idle"]

\* No send took place.
NoNet == [kind |-> "none"]

Init ==
    \E key \in Keys :
        /\ client = NewClient(key)
        /\ lastKey = key
        /\ call = Idle

\* The handle NewClient returned: the address of the one Client value.
Handle == [nil |-> FALSE, addr |-> "Client"]

\* A handle on a copy of the Client value: a second value, holding val.
\* SetKey hands such a handle back when it stores the key into a copy only.
SetKeyOnCopy(h, obj, key) ==
    [obj |-> obj,
     ret |-> [nil |-> FALSE, addr |-> "copy", val |-> [obj EXCEPT !.Key = key]]]

\* c.SetKey(key), c being the handle h on the value obj: the value after
\* c.Key = key, and the handle returned by return c.
SetKeyOn(h, obj, key) == [obj |-> [obj EXCEPT !.Key = key], ret |-> h]

\* The value a handle points at, the Client value of the program being obj.
Deref(h, obj) == IF h.addr = Handle.addr THEN obj ELSE h.val

\* client.SetKey(key) as a statement of its own.
SetKey(key) ==
    /\ client' = SetKeyOn(Handle, client, key).obj
    /\ lastKey' = key
    /\ UNCHANGED call

\* An endpoint method is entered on the handle: its receiver c is a copy of
\* the value the handle points at.
Enter ==
    /\ call.pc = "idle"
    /\ \E m \in Methods : \E a \in ArgsOf(m) :
         call' = [pc |-> "entered", method |-> m, args |-> a, c |-> Deref(Handle, client),
                  key |-> lastKey, on |-> Handle, chained |-> FALSE]
    /\ UNCHANGED <<client, lastKey>>

\* client.SetKey(key).M(args): the method is entered on the handle SetKey
\* returned, after SetKey stored the key.
SetKeyChained ==
    /\ call.pc = "idle"
    /\ \E key \in Keys : \E m \in Methods : \E a \in ArgsOf(m) :
         LET Chain(k) ==
                 /\ client' = k.obj
                 /\ call' = [pc |-> "entered", method |-> m, args |-> a,
                             c |-> Deref(k.ret, k.obj), key |-> key, on |-> k.ret,
                             chained |-> TRUE]
         IN  Chain(SetKeyOn(Handle, client, key)) /\ lastKey' = key

\* A method with a pointer receiver whose getURL stores the URL it built in
\* the client.
ExecuteStoresURL ==
    /\ call.pc = "entered"
    /\ \E net \in Nets(call.method) : \E order \in OperandOrders :
         LET Finished(out) ==
                 /\ call' = [pc |-> "returned", method |-> call.method, args |-> call.args,
                             c |-> call.c, key |-> call.key, on |-> call.on,
                             chained |-> call.chained,
                             net |-> IF out.sends > 0 THEN net ELSE NoNet, out |-> out]
                 /\ client' = IF out.req.nil THEN client
                               ELSE [client EXCEPT !.baseAPI = out.req.val.url]
         IN  Finished(Run(call.method, call.c, call.args, net, order))
    /\ UNCHANGED lastKey

\* The method runs to its return statement; the network answers its send.
Execute ==
    /\ call.pc = "entered"
    /\ \E net \in Nets(call.method) : \E order \in OperandOrders :
         LET Finished(out) ==
                 [pc |-> "returned", method |-> call.method, args |-> call.args,
                  c |-> call.c, key |-> call.key, on |-> call.on, chained |-> call.chained,
                  net |-> IF out.sends > 0 THEN net ELSE NoNet, out |-> out]
         IN  call' = Finished(Run(call.method, call.c, call.args, net, order))
    /\ UNCHANGED <<client, lastKey>>

\* The caller takes the results.
Return ==
    /\ call.pc = "returned"
    /\ call' = Idle
    /\ UNCHANGED <<client, lastKey>>

Next ==
    \/ \E key \in Keys : SetKey(key)
    \/ Enter
    \/ SetKeyChained
    \/ Execute
    \/ Return

Spec == Init /\ [][Next]_vars

\* ------------------------------------------------------------------ properties

Done == call.pc = "returned"

\* The method sent its request and read the whole response.
Answered == Done /\ call.net.kind = "response" /\ call.net.read = "ok"

\* The type of the variable a method hands to the executor.
RecordType(m) ==
    CASE m \in {"CreateApp", "CreateAppWithName", "FetchAppsToMerchant"} -> App
      [] m = "FetchApp" -> Identity
      [] m \in {"CreateMerchant", "GetMerchant", "FetchMerchants"} -> Merchant
      [] m = "FetchUsersToMerchant" -> User
      [] m = "FetchLinesToMerchant" -> Line
      [] m = "CreateTransaction" -> TransactionID
      [] m \in {"CaptureTransaction", "RefundTransaction", "VoidTransaction",
                "FindTransaction", "ListTransactions"} -> Transaction
      [] m = "FetchCard" -> Card
      [] m = "CreateCard" -> CardID

DestType(m) ==
    IF m \in ListMethods THEN Slice(Ptr(RecordType(m)))
    ELSE IF m = "InviteUserToMerchant" THEN InviteUserToMerchantResponse
    ELSE MapT(Ptr(RecordType(m)))

RECURSIVE Fits(_, _)
\* The document j has, wherever a value of type T takes a member of it, the
\* JSON type that value takes.
Fits(j, T) ==
    \/ j.t = "null"
    \/ T.k = "interface"
    \/ T.k = "string" /\ j.t = "string"
    \/ T.k = "bool" /\ j.t = "bool"
    \/ T.k \in {"int", "float64"} /\ j.t = "number"
    \/ T.k = "ptr" /\ Fits(j, T.elem)
    \/ T.k = "slice" /\ j.t = "array" /\ \A i \in DOMAIN j.e : Fits(j.e[i], T.elem)
    \/ T.k = "map" /\ j.t = "object" /\ \A k \in DOMAIN j.m : Fits(j.m[k], T.elem)
    \/ T.k = "struct" /\ j.t = "object"
       /\ \A k \in DOMAIN j.m :
            FieldForKey(T, k) = 0 \/ Fits(j.m[k], T.fields[FieldForKey(T, k)].type)

\* The body of the response is not empty and cannot be decoded into the
\* destination of the method: it is no JSON text, or a member has the wrong type.
Undecodable ==
    /\ Answered
    /\ call.net.body.t # "empty"
    /\ \/ ~ValidJSON(call.net.body)
       \/ call.method \notin CommandMethods /\ ~Fits(call.net.body, DestType(call.method))

\* C1: every request an endpoint method sends carries Basic credentials with an
\* empty username and, as password, the key the client held when the method
\* was invoked.
C1_RequestCarriesKeyAtInvocation ==
    (Done /\ ~call.out.req.nil) =>
        call.out.req.val.auth = [scheme |-> "Basic", user |-> "", pass |-> call.key]

\* A request was sent after SetKey changed the key of the client during the call.
C1_Witness == Done /\ ~call.out.req.nil /\ client.Key # call.key

\* C2: when the send fails at transport level the method returns, it does not
\* panic, and it returns the error of the send, which carries the cause.
C2_TransportFailureIsReturned ==
    (Done /\ call.net.kind = "transport") =>
        /\ ~call.out.panic
        /\ call.out.err.kind = "url.Error"
        /\ call.out.err.op # "parse"
        /\ call.out.err.cause = call.net.cause

C2_Witness ==
    /\ Done /\ call.net.kind = "transport" /\ call.net.cause = "i/o timeout"
    /\ call.method = "InviteUserToMerchant" /\ IsErr(call.out.err)

\* C3: one invocation of an endpoint method performs at most one send, whatever
\* its outcome, and exactly one when a response or a transport failure came.
C3_AtMostOneSend ==
    Done => /\ call.out.sends <= 1
            /\ (call.net.kind # "none" => call.out.sends = 1)

\* A send failed, and the method returned after that one send.
C3_Witness == Done /\ call.net.kind = "transport" /\ call.out.sends = 1

\* C4: a call whose request cannot be built or sent, or whose response cannot
\* be read or parsed, returns a non-nil error.
C4_FailedCallReturnsError ==
    (Done /\ (\/ call.out.sends = 0
              \/ call.net.kind = "transport"
              \/ call.net.kind = "response" /\ call.net.read # "ok"
              \/ call.net.kind = "response" /\ call.net.body.t = "garbage"))
        => IsErr(call.out.err)

\* C5: a method that hands the executor no destination returns a nil error
\* after a successful send, whatever the body of the response holds.
C5_NoDestinationIgnoresBody ==
    (Answered /\ call.method \in CommandMethods) => ~IsErr(call.out.err)

\* C6: a response with an empty body makes every endpoint method return a nil
\* error.
C6_EmptyBodyIsSuccess ==
    (Answered /\ call.net.body.t = "empty") => (~IsErr(call.out.err) /\ ~call.out.panic)

C6_Witness ==
    /\ Answered /\ call.net.body.t = "empty" /\ ~IsErr(call.out.err)
    /\ call.method \in {"RevokeUserFromMerchant", "CreateApp"}

IsRecordDoc(j) == j.t = "object" /\ "id" \in DOMAIN j.m /\ j.m["id"].t = "string"

\* The body answered to a single-resource method is an envelope that holds a
\* record under the resource key of the method, with nothing wrongly typed.
EnvelopeWithRecord ==
    /\ Answered /\ call.method \in SingleMethods
    /\ call.net.body.t = "object"
    /\ ResourceKey(call.method) \in DOMAIN call.net.body.m
    /\ IsRecordDoc(call.net.body.m[ResourceKey(call.method)])
    /\ Fits(call.net.body, DestType(call.method))

\* The body answered to a list method is an array of records.
ArrayOfRecords ==
    /\ Answered /\ call.method \in ListMethods
    /\ call.net.body.t = "array"
    /\ \A i \in DOMAIN call.net.body.e : IsRecordDoc(call.net.body.e[i])
    /\ Fits(call.net.body, DestType(call.method))

\* The elements of a slice result; a nil slice has none.
Elems(r) == IF r.nil THEN <<>> ELSE r.e

\* C8: a create or fetch method that reports success returns a non-nil record,
\* and the body it was answered held that record under the envelope key: a
\* body without the key or without the members is not reported as success.
C8_SuccessReturnsRecord ==
    (Answered /\ call.method \in SingleMethods /\ ~IsErr(call.out.err))
        => (~call.out.result.nil /\ EnvelopeWithRecord)

\* C9: a single-resource method returns the record under its resource key in
\* the envelope of its response, and a list method the elements of the array
\* of its response, in order.
C9_ResultIsRecordOfResponse ==
    /\ EnvelopeWithRecord =>
         /\ ~call.out.result.nil
         /\ call.out.result.val.ID = call.net.body.m[ResourceKey(call.method)].m["id"].s
    /\ ArrayOfRecords =>
         /\ Len(Elems(call.out.result)) = Len(call.net.body.e)
         /\ \A i \in DOMAIN call.net.body.e :
              call.out.result.e[i].val.ID = call.net.body.e[i].m["id"].s

\* A member of a request body that is null or the zero value of its type.
IsZeroDoc(j) ==
    \/ j.t = "null"
    \/ j.t = "string" /\ j.s = ""
    \/ j.t = "number" /\ j.n = 0
    \/ j.t = "bool" /\ ~j.b

\* C10: the body a mutating method sends holds only members the caller set:
\* none of its members is null or a zero value.
C10_BodyHoldsOnlySetFields ==
    (Done /\ ~call.out.req.nil /\ call.method \in DTOMethods) =>
        \A k \in DOMAIN call.out.req.val.body.doc.m :
            ~IsZeroDoc(call.out.req.val.body.doc.m[k])

\* C11: SetKey stores the key in the Client value of the handle and returns
\* that handle: the value holds the key given last, by NewClient or by SetKey,
\* every method is entered on the one handle with a receiver that holds that
\* key, and the request it sends is authenticated with it.
C11_SetKeyReplacesInPlace ==
    /\ client.Key = lastKey
    /\ call.pc # "idle" => (call.on = Handle /\ call.c.Key = call.key)
    /\ (Done /\ ~call.out.req.nil) => call.out.req.val.auth.pass = call.c.Key

\* A chained call sent its request with the key its SetKey stored, and the
\* client still holds that key.
C11_Witness ==
    /\ Done /\ call.chained /\ ~call.out.req.nil
    /\ call.out.req.val.auth.pass = call.key /\ client.Key = call.key

\* The method that creates what a fetch method fetches.
CreateOf(m) ==
    CASE m = "GetMerchant" -> "CreateMerchant"
      [] m = "FetchCard" -> "CreateCard"
      [] m = "FindTransaction" -> "CreateTransaction"

\* C12: a fetch by the identifier a creation returned, answered with the
\* resource the creation was answered with, returns a record equal to the one
\* the creation returned.
C12_FetchedEqualsCreated ==
    (EnvelopeWithRecord /\ call.method \in {"GetMerchant", "FetchCard", "FindTransaction"}) =>
        \A a \in ArgsOf(CreateOf(call.method)) : \A order \in OperandOrders :
            LET Same(cr) ==
                    (~IsErr(cr.err) /\ ~cr.result.nil /\ <<cr.result.val.ID>> = call.args.id)
                        => call.out.result = cr.result
                answer == JOne(ResourceKey(CreateOf(call.method)),
                               call.net.body.m[ResourceKey(call.method)])
            IN  Same(Run(CreateOf(call.method), call.c, a, Response(200, answer, "ok"), order))

\* C14: a list method asked for at most limit records and answered with an
\* array of no more than limit records returns no more than limit records,
\* and every record of the array is in what it returns.
C14_ListWithinLimit ==
    (ArrayOfRecords /\ Len(call.net.body.e) <= call.args.limit) =>
        /\ Len(Elems(call.out.result)) <= call.args.limit
        /\ \A i \in DOMAIN call.net.body.e :
             \E j \in DOMAIN Elems(call.out.result) :
                 call.out.result.e[j].val.ID = call.net.body.e[i].m["id"].s

\* The trail of the transaction in the body answered to a capture, refund or
\* void, when its last entry is the entry of this call: it carries the amount
\* and the descriptor of the DTO.
AnsweredTrail ==
    IF /\ EnvelopeWithRecord
       /\ call.method \in {"CaptureTransaction", "RefundTransaction", "VoidTransaction"}
       /\ "trail" \in DOMAIN call.net.body.m["transaction"].m
    THEN LET trail == call.net.body.m["transaction"].m["trail"]
             Entry(last) ==
                 /\ last.t = "object" /\ {"amount", "descriptor"} \subseteq DOMAIN last.m
                 /\ last.m["amount"] = JNum(call.args.dto.Amount)
                 /\ last.m["descriptor"] = JStr(call.args.dto.Descriptor)
         IN  IF trail.t = "array" /\ Len(trail.e) > 0 /\ Entry(trail.e[Len(trail.e)])
             THEN trail.e ELSE <<>>
    ELSE <<>>

\* C15: a capture, refund or void returns the transaction with the trail of
\* its response: as many entries, the last one carrying the amount and the
\* descriptor supplied in the call.
C15_TrailCarriesCall ==
    AnsweredTrail # <<>> =>
        /\ ~call.out.result.nil
        /\ Len(Elems(call.out.result.val.Trail)) = Len(AnsweredTrail)
        /\ LET Last(e) == /\ e.val.Amount = call.args.dto.Amount
                          /\ e.val.Descriptor = call.args.dto.Descriptor
           IN  Last(call.out.result.val.Trail.e[Len(AnsweredTrail)])

RECURSIVE ReadString(_, _, _)
\* A JSON reader inside a string that began before token i of text: the
\* string read and whether the text is well formed, the string ending at the
\* closing token "} that ends the text. A quote ends the string early, a
\* backslash takes the next character as an escape.
ReadString(text, i, acc) ==
    IF i > Len(text) THEN [ok |-> FALSE, val |-> acc]
    ELSE IF text[i] = "\"}" THEN [ok |-> i = Len(text), val |-> acc]
    ELSE IF text[i] = "\"" THEN [ok |-> FALSE, val |-> acc]
    ELSE IF text[i] = "\\"
         THEN IF i = Len(text) \/ text[i + 1] = "\"}" THEN [ok |-> FALSE, val |-> acc]
              ELSE IF text[i + 1] \in {"\"", "\\"}
                   THEN ReadString(text, i + 2, Append(acc, text[i + 1]))
                   ELSE ReadString(text, i + 2, Append(acc, "\\" \o text[i + 1]))
    ELSE ReadString(text, i + 1, Append(acc, text[i]))

\* The member name the opening token of an interpolated body writes.
OpenedMember(tok) ==
    CASE tok = "{\"name\":\"" -> "name"
      [] tok = "{\"email\":\"" -> "email"
      [] tok = "{\"appId\":\"" -> "appId"
      [] OTHER -> ""

\* The member name the method is to send its argument under.
MemberOf(m) ==
    CASE m = "CreateAppWithName" -> "name"
      [] m = "InviteUserToMerchant" -> "email"
      [] m = "AddAppToMerchant" -> "appId"

\* C17: the body CreateApp sends is absent, and the body CreateAppWithName,
\* InviteUserToMerchant and AddAppToMerchant send is a well-formed JSON
\* object whose one member has the name of the method's argument and the
\* argument as its value.
C17_BodyCarriesArgument ==
    (Done /\ ~call.out.req.nil) =>
        /\ call.method = "CreateApp" => call.out.req.val.body = NoBody
        /\ call.method \in {"CreateAppWithName", "InviteUserToMerchant", "AddAppToMerchant"} =>
             /\ call.out.req.val.body.kind = "text"
             /\ OpenedMember(call.out.req.val.body.text[1]) = MemberOf(call.method)
             /\ ReadString(call.out.req.val.body.text, 2, <<>>)
                  = [ok |-> TRUE, val |-> call.args.text]

\* What the method of the call may return when its response, with the same
\* body, has the status st.
OutcomesWithStatus(st) ==
    {Run(call.method, call.c, call.args,
         Response(st, call.net.body, call.net.read), order) : order \in OperandOrders}

\* C18: what a method returns depends on the body of the response and not on
\* its status: with any other status it returns the same, so a response with
\* an error status and an empty body is a success.
C18_StatusIsIgnored ==
    (Done /\ call.net.kind = "response") =>
        /\ \A st \in {200, 401, 500} \ {call.net.status} :
             call.out \in OutcomesWithStatus(st)
        /\ (call.net.read = "ok" /\ call.net.body.t = "empty") => ~IsErr(call.out.err)

\* A response with status 401 that holds a record was decoded as the resource.
C18_Witness ==
    /\ EnvelopeWithRecord /\ call.net.status = 401
    /\ ~IsErr(call.out.err) /\ ~call.out.result.nil

\* The verb and the route of the remote operation of each method, with the
\* identifiers of the call in their places.
VerbOf(m) ==
    CASE m = "UpdateMerchant" -> "PUT"
      [] m \in {"RevokeUserFromMerchant", "RevokeAppFromMerchant"} -> "DELETE"
      [] m \in ListMethods \cup {"FetchApp", "GetMerchant", "FindTransaction", "FetchCard"} -> "GET"
      [] OTHER -> "POST"

RouteOf(m, a) ==
    CASE m \in {"CreateApp", "CreateAppWithName"} -> <<"/", "apps">>
      [] m = "FetchApp" -> <<"/", "me">>
      [] m = "CreateMerchant" -> <<"/", "merchants">>
      [] m \in {"GetMerchant", "UpdateMerchant"} -> <<"/", "merchants", "/">> \o a.id
      [] m = "FetchMerchants" -> <<"/", "identities", "/">> \o a.id \o <<"/", "merchants">>
      [] m \in {"InviteUserToMerchant", "FetchUsersToMerchant"} ->
           <<"/", "merchants", "/">> \o a.id \o <<"/", "users">>
      [] m = "RevokeUserFromMerchant" ->
           <<"/", "merchants", "/">> \o a.id \o <<"/", "users", "/">> \o a.id2
      [] m \in {"AddAppToMerchant", "FetchAppsToMerchant"} ->
           <<"/", "merchants", "/">> \o a.id \o <<"/", "apps">>
      [] m = "RevokeAppFromMerchant" ->
           <<"/", "merchants", "/">> \o a.id \o <<"/", "apps", "/">> \o a.id2
      [] m = "FetchLinesToMerchant" -> <<"/", "merchants", "/">> \o a.id \o <<"/", "lines">>
      [] m \in {"CreateTransaction", "ListTransactions"} ->
           <<"/", "merchants", "/">> \o a.id \o <<"/", "transactions">>
      [] m = "FindTransaction" -> <<"/", "transactions", "/">> \o a.id
      [] m = "CaptureTransaction" -> <<"/", "transactions", "/">> \o a.id \o <<"/", "captures">>
      [] m = "RefundTransaction" -> <<"/", "transactions", "/">> \o a.id \o <<"/", "refunds">>
      [] m = "VoidTransaction" -> <<"/", "transactions", "/">> \o a.id \o <<"/", "voids">>
      [] m = "FetchCard" -> <<"/", "cards", "/">> \o a.id
      [] m = "CreateCard" -> <<"/", "merchants", "/">> \o a.id \o <<"/", "cards">>

\* The decimal digits of a limit of the model.
Digits(n) == IF n = 0 THEN "0" ELSE IF n = 1 THEN "1" ELSE IF n = 2 THEN "2" ELSE "3"

Separators == {"?", "#"}

PlainArgs(a) ==
    \A i \in DOMAIN (a.id \o a.id2) : (a.id \o a.id2)[i] \notin Separators

\* C19: a request that was built has the verb of the operation of its method
\* and, after the base URL, the route of that operation, followed by
\* ?limit=N with the limit passed when the method is a list method and by
\* nothing otherwise.
C19_VerbAndRoute ==
    (Done /\ ~call.out.req.nil) =>
        LET req  == call.out.req.val
            tail == SubSeq(req.url, Len(BaseAPI) + 1, Len(req.url))
            want == IF call.method \in ListMethods
                    THEN <<"limit", "=", Digits(call.args.limit)>> ELSE <<>>
        IN  /\ req.method = VerbOf(call.method)
            /\ tail = RouteOf(call.method, call.args)
                        \o (IF call.method \in ListMethods THEN <<"?">> \o want ELSE <<>>)
            /\ PlainArgs(call.args) =>
                  /\ req.target.path = RouteOf(call.method, call.args)
                  /\ req.target.query = want

\* A list method sent its request with the limit 0 in the query.
C19_Witness ==
    /\ Done /\ call.method \in ListMethods /\ call.args.limit = 0 /\ call.out.sends > 0
    /\ call.out.req.val.target.query = <<"limit", "=", "0">>

\* C20: a request that was built goes to https://api.paylike.io: its URL
\* starts with the base URL, and the scheme and host it is sent to are those
\* of the base URL, whatever key was set and whatever the arguments are; the
\* base URL of the client never changes.
C20_FixedBaseHost ==
    /\ client.baseAPI = BaseAPI
    /\ call.pc # "idle" => call.c.baseAPI = BaseAPI
    /\ (Done /\ ~call.out.req.nil) =>
          LET req == call.out.req.val
          IN  /\ SubSeq(req.url, 1, Len(BaseAPI)) = BaseAPI
              /\ req.target.scheme = "https://"
              /\ req.target.host = <<"api.paylike.io">>

\* A request with an identifier that holds URL separators was sent after the
\* key was replaced.
C20_Witness ==
    /\ Done /\ call.out.sends > 0 /\ ~PlainArgs(call.args) /\ call.chained
    /\ call.out.req.val.target.host = <<"api.paylike.io">>

\* The methods whose request carries a body.
BodyMethods == DTOMethods \cup {"CreateAppWithName", "InviteUserToMerchant", "AddAppToMerchant"}

\* C21: a request that was sent with a body has the Content-Type
\* application/json, and the request of every method that takes a DTO, a
\* name, an email or an app id is sent with a body.
C21_BodyHasJSONContentType ==
    (Done /\ call.out.sends > 0) =>
        /\ call.method \in BodyMethods => call.out.req.val.body.kind # "nil"
        /\ call.out.req.val.body.kind # "nil" =>
              call.out.req.val.contentType = "application/json"

\* A request with a serialized DTO was sent as application/json.
C21_Witness ==
    /\ Done /\ call.out.sends > 0 /\ call.out.req.val.body.kind = "json"
    /\ call.out.req.val.contentType = "application/json"

\* C24: a method that returns a record or a collection returns nil for it
\* whenever it returns an error.
C24_ErrorMeansNilResult ==
    (Done /\ call.method \notin CommandMethods /\ IsErr(call.out.err)) => call.out.result.nil

\* The DTO holds a value json.Marshal cannot encode: a func in Custom.
NotSerializable(dto) ==
    /\ "Custom" \in DOMAIN dto
    /\ ~dto.Custom.nil
    /\ \E k \in DOMAIN dto.Custom.m : ~dto.Custom.m[k].nil /\ dto.Custom.m[k].dyn.t = "func"

\* C25: a method whose DTO cannot be serialized returns the error of
\* json.Marshal with a nil result and neither builds nor sends a request;
\* no other call returns that error.
C25_MarshalFailureSendsNothing ==
    (Done /\ call.method \in DTOMethods) =>
        /\ NotSerializable(call.args.dto) =>
              /\ call.out.err = MarshalError /\ call.out.result.nil
              /\ call.out.sends = 0 /\ call.out.req.nil
        /\ call.out.err = MarshalError => NotSerializable(call.args.dto)

\* CreateTransaction was called with a func in Custom and returned the error.
C25_Witness ==
    /\ Done /\ call.method = "CreateTransaction" /\ NotSerializable(call.args.dto)
    /\ call.out.err = MarshalError /\ call.out.sends = 0

\* C26: a step of an endpoint method (its entry, its run, its return) leaves
\* the client as it was; no step changes the base URL or the transport, and
\* the key changes in a step of SetKey only, to the key SetKey was given.
C26_MethodsLeaveClientAlone ==
    [][/\ client'.baseAPI = client.baseAPI
       /\ client'.client = client.client
       /\ (call'.pc # call.pc /\ ~(call'.pc = "entered" /\ call'.chained)) => client' = client
       /\ client'.Key # client.Key => client'.Key = lastKey']_vars

\* A method sent its request and returned, and the client holds the key and
\* the base URL it held when the method was entered.
C26_Witness ==
    /\ Done /\ call.out.sends > 0 /\ ~call.chained
    /\ client.Key = call.key /\ client = call.c /\ client.baseAPI = BaseAPI

\* C27: the request of a method that takes identifiers is built whatever
\* the identifiers hold, and goes to the route of the method with each
\* identifier in its segment and to no other query than the limit.
C27_IdentifierIsOneSegment ==
    (Done /\ call.args.id # <<>>) =>
        /\ ~call.out.req.nil
        /\ call.out.req.val.target.path = RouteOf(call.method, call.args)
        /\ call.out.req.val.target.query =
              (IF call.method \in ListMethods
               THEN <<"limit", "=", Digits(call.args.limit)>> ELSE <<>>)

\* The trail of the transaction in the response, when the method decoded a
\* transaction from it.
DecodedTrail ==
    IF /\ EnvelopeWithRecord /\ ResourceKey(call.method) = "transaction"
       /\ ~call.out.result.nil
       /\ "trail" \in DOMAIN call.net.body.m["transaction"].m
       /\ call.net.body.m["transaction"].m["trail"].t = "array"
    THEN call.net.body.m["transaction"].m["trail"].e
    ELSE <<>>

\* C28: each entry of the trail of a decoded transaction has the Capture flag
\* of the member "capture" of its object in the response.
C28_CaptureFlagIsDecoded ==
    \A i \in DOMAIN DecodedTrail :
        (DecodedTrail[i].t = "object" /\ "capture" \in DOMAIN DecodedTrail[i].m) =>
            JBool(call.out.result.val.Trail.e[i].val.Capture) = DecodedTrail[i].m["capture"]

\* ------------------------------------------------------------------ goroutines

\* The goroutines that call endpoint methods on the one client.
Procs == {"g1", "g2"}

\* What the goroutines call: a single-resource and a list method.
ConcurrentCalls ==
    {[method |-> "GetMerchant", args |-> Args(<<"id1">>, <<>>, 0, <<>>, NilPtr)],
     [method |-> "FetchMerchants", args |-> Args(<<"id1">>, <<>>, MaxLimit, <<>>, NilPtr)]}

\* What the network answers them with.
ConcurrentNets(m) ==
    IF m = "GetMerchant"
    THEN {Response(200, JOne("merchant", GoodRecord(m)), "ok"),
          Response(200, JOne("merchant", PartialRecord), "ok")}
    ELSE {Response(200, JArr(<<GoodRecord(m)>>), "ok")}

\* The string a goroutine reads when it copies Key while another goroutine
\* stores a key: the data pointer of one string with the length of the other.
TornKey == "torn"

\* A goroutine that is in no method: no invocation, no response read.
GoIdle == [pc |-> "idle", inv |-> [method |-> ""], resp |-> NoNet]

\* The invocation of a method: the receiver c copied at the call, the key the
\* client held before the call, whether a SetKey ran during the copy (raced)
\* or after it and before the send (swapped), and what the network answered.
Invocation(k, c, key, raced) ==
    [method |-> k.method, args |-> k.args, c |-> c, key |-> key, raced |-> raced,
     swapped |-> FALSE, net |-> NoNet, overlapped |-> FALSE]

\* The locals of all invocations held in the frame of one goroutine.
FrameShared(p) == "g1"

\* The frame that holds the locals (req, resp, b, marshalled) of the
\* invocation goroutine p runs: its own.
Frame(p) == p

InitConcurrent ==
    \E key \in Keys :
        /\ client = NewClient(key)
        /\ lastKey = key
        /\ call = [p \in Procs |-> GoIdle]

\* A goroutine stores a key; the invocations that have not sent yet are
\* marked.
GoSetKey ==
    \E key \in Keys :
        /\ client' = SetKeyOn(Handle, client, key).obj
        /\ lastKey' = key
        /\ call' = [q \in Procs |->
                      IF call[q].pc = "entered"
                      THEN [call[q] EXCEPT !.inv.swapped = TRUE] ELSE call[q]]

\* Goroutine p enters a method: the receiver is copied.
GoEnter(p) ==
    /\ call[p].pc = "idle"
    /\ \E k \in ConcurrentCalls :
         call' = [call EXCEPT ![p] = [pc |-> "entered",
                                      inv |-> Invocation(k, Deref(Handle, client), lastKey, FALSE),
                                      resp |-> NoNet]]
    /\ UNCHANGED <<client, lastKey>>

\* Goroutine p enters a method while another goroutine runs SetKey: the copy
\* of Key races with the store, and holds the old key, the new one or a torn
\* string.
GoEnterRacing(p) ==
    /\ call[p].pc = "idle"
    /\ \E key \in Keys \ {client.Key} : \E k \in ConcurrentCalls :
       \E seen \in {client.Key, key, TornKey} :
         /\ client' = SetKeyOn(Handle, client, key).obj
         /\ lastKey' = key
         /\ call' = [q \in Procs |->
                       IF q = p
                       THEN [pc |-> "entered",
                             inv |-> Invocation(k, [client EXCEPT !.Key = seen], lastKey, TRUE),
                             resp |-> NoNet]
                       ELSE IF call[q].pc = "entered"
                       THEN [call[q] EXCEPT !.inv.swapped = TRUE] ELSE call[q]]

\* The request of p is sent and its response is read into the locals.
GoSend(p) ==
    /\ call[p].pc = "entered"
    /\ \E net \in ConcurrentNets(call[p].inv.method) :
         call' = [call EXCEPT ![p].pc = "sent", ![p].inv.net = net, ![Frame(p)].resp = net]
    /\ UNCHANGED <<client, lastKey>>

\* The method of p decodes what its locals hold and reaches its return.
GoFinishThroughPointer(p) ==
    /\ call[p].pc = "sent"
    /\ \E order \in OperandOrders :
         LET Finished(out) ==
                 [call EXCEPT ![p] = [pc |-> "returned",
                                      inv |-> [call[p].inv EXCEPT
                                                 !.overlapped = \E q \in Procs \ {p} :
                                                                   call[q].pc = "sent"],
                                      resp |-> call[p].resp, out |-> out]]
         IN  call' = Finished(Run(call[p].inv.method, Deref(Handle, client), call[p].inv.args,
                                  call[Frame(p)].resp, order))
    /\ UNCHANGED <<client, lastKey>>

GoFinish(p) ==
    /\ call[p].pc = "sent"
    /\ \E order \in OperandOrders :
         LET Finished(out) ==
                 [call EXCEPT ![p] = [pc |-> "returned",
                                      inv |-> [call[p].inv EXCEPT
                                                 !.overlapped = \E q \in Procs \ {p} :
                                                                   call[q].pc = "sent"],
                                      resp |-> call[p].resp, out |-> out]]
         IN  call' = Finished(Run(call[p].inv.method, call[p].inv.c, call[p].inv.args,
                                  call[Frame(p)].resp, order))
    /\ UNCHANGED <<client, lastKey>>

\* The caller in p takes the results.
GoReturn(p) ==
    /\ call[p].pc = "returned"
    /\ call' = [call EXCEPT ![p] = GoIdle]
    /\ UNCHANGED <<client, lastKey>>

NextConcurrent ==
    \/ GoSetKey
    \/ \E p \in Procs : GoEnter(p)
    \/ \E p \in Procs : GoEnterRacing(p)
    \/ \E p \in Procs : GoSend(p)
    \/ \E p \in Procs : GoFinish(p)
    \/ \E p \in Procs : GoReturn(p)

SpecConcurrent == InitConcurrent /\ [][NextConcurrent]_vars

\* The client as goroutine p found it when it entered its method.
ClientAtEntry(p) == [client EXCEPT !.Key = call[p].inv.key]

\* C22: a method that ran while other goroutines ran methods on the same
\* client, no SetKey racing with its entry, returns what it returns when run
\* alone on the client it was invoked on with the response the network gave
\* it: the same request (verb, URL, body, credential), result and error.
C22_CallsDoNotInterfere ==
    \A p \in Procs :
        /\ (call[p].pc = "sent" /\ ~call[p].inv.raced) => call[p].resp = call[p].inv.net
        /\ (call[p].pc = "returned" /\ ~call[p].inv.raced) =>
              \E order \in OperandOrders :
                  call[p].out = Run(call[p].inv.method, ClientAtEntry(p), call[p].inv.args,
                                    call[p].inv.net, order)

\* A method returned its record while the other goroutine held a different
\* response that it had not decoded yet.
C22_Witness ==
    \E p \in Procs : \E q \in Procs \ {p} :
        /\ call[p].pc = "returned" /\ ~call[p].inv.raced /\ call[p].inv.overlapped
        /\ call[q].pc = "sent" /\ call[q].inv.net # call[p].inv.net
        /\ ~IsErr(call[p].out.err) /\ ~call[p].out.result.nil

\* C23: a method works on the copy of the client made when it was entered: a
\* SetKey after the entry does not change the copy, and the request carries
\* the key the client held at the entry.
C23_RequestKeepsKeyOfEntry ==
    \A p \in Procs :
        (call[p].pc # "idle" /\ ~call[p].inv.raced) =>
            /\ call[p].inv.c = ClientAtEntry(p)
            /\ (call[p].pc = "returned" /\ ~call[p].out.req.nil) =>
                  call[p].out.req.val.auth.pass = call[p].inv.key

\* A request was sent with the key of the entry although SetKey stored
\* another key after the entry and before the send.
C23_Witness ==
    \E p \in Procs :
        /\ call[p].pc = "returned" /\ ~call[p].inv.raced /\ call[p].inv.swapped
        /\ call[p].out.sends > 0 /\ client.Key # call[p].inv.key
        /\ call[p].out.req.val.auth.pass = call[p].inv.key

====
